---- MODULE Spec2Model ----
(***************************************************************************)
(* Model of the libpq pipelining benchmark harness                         *)
(* (qail-bench/benchmarks/fifty_million_libpq.c, pg/examples/              *)
(* fifty_million_libpq.c: the two copies differ only in how the connection *)
(* string is obtained) and of the PHP binding functions of                 *)
(* php/ext/qail/qail.c.                                                    *)
(*                                                                         *)
(* main() is modelled as a sequential process with a program counter; one  *)
(* action per libpq call or loop step.  The connection's reply queue       *)
(* (what PQgetResult will return next) is part of the state.               *)
(***************************************************************************)
EXTENDS Integers, Sequences, FiniteSets, TLC

(***************************************************************************)
(* Bounds.  The program's TOTAL_QUERIES = 50000000 and                     *)
(* QUERIES_PER_BATCH = 10000 are scaled down; the batch size is kept above *)
(* 10 so that the "% 10" of the parameter formula wraps.                   *)
(***************************************************************************)
MaxBatchSize == 11

MaxBatches == 2

\* the monotonic clock is read in ticks; it stops advancing at MaxClock
MaxClock == 1

\* at most this many data results of a run are not PGRES_TUPLES_OK
MaxBadResults == 1

QUERIES_PER_BATCH == MaxBatchSize

TOTAL_QUERIES == MaxBatches * MaxBatchSize

\* the loop condition written batch <= BATCHES
BatchesOffByOne(total, perBatch) == total \div perBatch + 1

Batches(total, perBatch) == total \div perBatch

BATCHES == Batches(TOTAL_QUERIES, QUERIES_PER_BATCH)

\* line 148: successful % 1000000 == 0 || (now - last_report) >= 5000
\* (1000000 is a hundred batches' worth of requests in the program; scaled
\* with the batch size, it is one batch's worth here)
ProgressModulus == QUERIES_PER_BATCH

ReportIntervalMs == 5000

\* a tick of the clock is as long as the report interval, in ms
TickMs == ReportIntervalMs

\* sizeof(params[i])
ParamBufSize == 16

VARIABLES
    pc,           \* position of main()
    batch,        \* loop variable of the batch loop
    i,            \* loop variable of the build / send / drain loops
    successful,   \* int successful
    params,       \* static char params[][16]: sequence of digit strings
    paramPtrs,    \* static const char* paramPtrs[]: index into params
    start,        \* double start (ms)
    last_report,  \* double last_report (ms)
    exitCode,     \* value returned by main(), -1 while running
    connStatus,   \* "none", "ok", "bad" (connection lost), "finished"
    prepared,     \* stmt1 exists on the server
    pipelineMode, \* connection is in pipeline mode
    replies,      \* results the connection will hand out, in order
    clock,        \* monotonic clock, in ticks
    hist,         \* history of the run (what was called, how often)
    heap,         \* PHP binding: the buffers handed out so far, with their frees
    phpRet,       \* PHP binding: what the last PHP function returned
    copy,         \* which copy of the harness runs: "bench" or "example"
    env,          \* the process environment: variable name -> value or Unset
    conninfo      \* the connection parameters PQconnectdb was given

vars == <<pc, batch, i, successful, params, paramPtrs, start, last_report,
          exitCode, connStatus, prepared, pipelineMode, replies, clock, hist,
          heap, phpRet, copy, env, conninfo>>

phpVars == <<heap, phpRet>>

envVars == <<copy, env, conninfo>>

mainVars == <<pc, batch, i, successful, params, paramPtrs, start, last_report,
              exitCode, connStatus, prepared, pipelineMode, replies, clock, hist,
              copy, env, conninfo>>

progVars == <<batch, i, successful, params, paramPtrs, start, last_report, exitCode>>

connVars == <<connStatus, prepared, pipelineMode, replies>>

Min(a, b) == IF a < b THEN a ELSE b

(***************************************************************************)
(* snprintf(buf, 16, "%d", n) for n >= 0: the decimal digits of n, cut to  *)
(* what fits the buffer; the server reads the text back as an integer.     *)
(***************************************************************************)
Digit(d) == <<"0", "1", "2", "3", "4", "5", "6", "7", "8", "9">>[d + 1]

RECURSIVE FormatInt(_)
FormatInt(n) == IF n < 10 THEN <<Digit(n)>>
                ELSE FormatInt(n \div 10) \o <<Digit(n % 10)>>

Snprintf(size, n) == SubSeq(FormatInt(n), 1, Min(Len(FormatInt(n)), size - 1))

DigitValue(c) == CHOOSE d \in 0..9 : Digit(d) = c

RECURSIVE ParseInt(_)
ParseInt(s) == IF s = <<>> THEN 0
               ELSE 10 * ParseInt(SubSeq(s, 1, Len(s) - 1)) + DigitValue(s[Len(s)])

\* the modulus forgotten
ParamValueNoWrap(idx) == idx + 1

\* line 108: (i % 10) + 1
ParamValue(idx) == (idx % 10) + 1

(***************************************************************************)
(* The connection.  A request accepted by PQsendQueryPrepared yields a     *)
(* result followed by the NULL that ends the command; PQpipelineSync       *)
(* yields one PGRES_PIPELINE_SYNC result with no NULL after it.            *)
(* PQgetResult hands out the head of the queue, or NULL when the queue is  *)
(* empty.                                                                  *)
(***************************************************************************)
DataStatuses == {"PGRES_TUPLES_OK", "PGRES_COMMAND_OK", "PGRES_FATAL_ERROR"}

\* kinds of queue entries: "RESULT" (a request's result), "TERM" (the NULL
\* ending a command), "SYNC" (the sync marker's result), "ERROR" (the error
\* result libpq hands out once the connection is lost); req is the index of
\* the request the entry answers, -1 when it answers none
Reply(kind, req) == [kind |-> kind, req |-> req]

ResultStatuses(kind, bad) ==
    IF kind = "SYNC" THEN {"PGRES_PIPELINE_SYNC"}
    ELSE IF kind = "ERROR" THEN {"PGRES_FATAL_ERROR"}
    ELSE IF bad < MaxBadResults THEN DataStatuses
    ELSE {"PGRES_TUPLES_OK"}

PQgetResult(q) ==
    IF q = <<>> THEN [res |-> "NULL", got |-> "NONE", req |-> -1, rest |-> q]
    ELSE [res  |-> IF Head(q).kind = "TERM" THEN "NULL" ELSE Head(q).kind,
          got  |-> Head(q).kind,
          req  |-> Head(q).req,
          rest |-> Tail(q)]

\* every result but an error counted
CountsNonError(status) == status # "PGRES_FATAL_ERROR"

\* every non-NULL result counted
CountsAnyResult(status) == TRUE

\* line 132: PQresultStatus(res) == PGRES_TUPLES_OK
CountsAsSuccess(status) == status = "PGRES_TUPLES_OK"

\* the loops stopping one iteration early
DrainLoopBoundShort == QUERIES_PER_BATCH - 1

SendLoopBoundShort == QUERIES_PER_BATCH - 1

\* line 128: for (int i = 0; i < QUERIES_PER_BATCH; i++)
DrainLoopBound == QUERIES_PER_BATCH

\* line 115: for (int i = 0; i < QUERIES_PER_BATCH; i++)
SendLoopBound == QUERIES_PER_BATCH

(***************************************************************************)
(* Connection parameters.  A C string is modelled by its text and its      *)
(* length; the conninfo string is the sequence of its pieces, cut to what  *)
(* the 256-byte buffer holds, and PQconnectdb reads the parameters back    *)
(* out of it.                                                              *)
(***************************************************************************)
Str(text, len) == [text |-> text, len |-> len]

Unset == Str(<<"(unset)">>, 0)

EnvNames == {"PG_HOST", "PG_PORT", "PG_USER", "PG_DATABASE"}

\* the values a variable may have: unset, a short value, a long one
EnvValues(name) == {Unset, Str(<<"value of", name>>, 8),
                    Str(<<"long value of", name>>, 250)}

\* sizeof(conninfo)
ConninfoSize == 256

\* lines 35-38
get_env_or(key, default_val) == IF env[key] # Unset THEN env[key] ELSE default_val

\* the first n bytes of a string
Cut(str, n) == IF str.len <= n THEN str ELSE Str(<<"first bytes of">> \o str.text, n)

\* snprintf(buf, size, ...) of the concatenated pieces: at most size - 1 bytes
RECURSIVE Fill(_, _)
Fill(pieces, room) ==
    IF pieces = <<>> \/ room = 0 THEN <<>>
    ELSE <<Cut(Head(pieces), room)>> \o Fill(Tail(pieces), room - Cut(Head(pieces), room).len)

\* lines 60-63: "host=%s port=%s user=%s dbname=%s"
BenchConninfo ==
    Fill(<<Str(<<"host=">>, 5), get_env_or("PG_HOST", Str(<<"127.0.0.1">>, 9)),
           Str(<<" port=">>, 6), get_env_or("PG_PORT", Str(<<"5432">>, 4)),
           Str(<<" user=">>, 6), get_env_or("PG_USER", Str(<<"postgres">>, 8)),
           Str(<<" dbname=">>, 8), get_env_or("PG_DATABASE", Str(<<"postgres">>, 8))>>,
         ConninfoSize - 1)

\* pg/examples/fifty_million_libpq.c line 36: the string is a literal
ExampleConninfo ==
    <<Str(<<"host=">>, 5), Str(<<"127.0.0.1">>, 9), Str(<<" port=">>, 6), Str(<<"5432">>, 4),
      Str(<<" user=">>, 6), Str(<<"orion">>, 5), Str(<<" dbname=">>, 8), Str(<<"swb_staging_local">>, 17)>>

\* the value PQconnectdb finds for a keyword: the piece after the keyword, or
\* libpq's own default when the string has no such keyword or no value for it
Keyword(ci, kw) ==
    IF \E k \in 1..(Len(ci) - 1) : ci[k] = kw
    THEN ci[(CHOOSE k \in 1..(Len(ci) - 1) : ci[k] = kw) + 1]
    ELSE Str(<<"(libpq default)">>, 0)

\* line 68: PQconnectdb(conninfo)
ConnectTarget(ci) ==
    [host   |-> Keyword(ci, Str(<<"host=">>, 5)),
     port   |-> Keyword(ci, Str(<<" port=">>, 6)),
     user   |-> Keyword(ci, Str(<<" user=">>, 6)),
     dbname |-> Keyword(ci, Str(<<" dbname=">>, 8))]

NoTarget == [host |-> Unset, port |-> Unset, user |-> Unset, dbname |-> Unset]

(***************************************************************************)
(* double arithmetic of the progress line: a value is zero, finite (num /  *)
(* den, positive), inf or nan; dividing by zero gives inf, or nan for 0/0  *)
(***************************************************************************)
Dbl(n) == [cls |-> IF n = 0 THEN "zero" ELSE "finite", num |-> n, den |-> 1]

DblSpecial(cls) == [cls |-> cls, num |-> 0, den |-> 1]

FDiv(x, y) ==
    IF x.cls = "nan" \/ y.cls = "nan" THEN DblSpecial("nan")
    ELSE IF y.cls = "zero"
         THEN IF x.cls = "zero" THEN DblSpecial("nan") ELSE DblSpecial("inf")
    ELSE IF y.cls = "inf"
         THEN IF x.cls = "inf" THEN DblSpecial("nan") ELSE DblSpecial("zero")
    ELSE IF x.cls \in {"inf", "zero"} THEN DblSpecial(x.cls)
    ELSE [cls |-> "finite", num |-> x.num * y.den, den |-> x.den * y.num]

\* line 149: elapsed = (now - start) / 1000.0
Elapsed(now, st) == FDiv(Dbl(now - st), Dbl(1000))

\* line 150: qps = successful / elapsed
Qps(succ, elapsed) == FDiv(Dbl(succ), elapsed)

\* lines 151-152: remaining = TOTAL_QUERIES - successful; eta = remaining / qps
Eta(succ, qps) == FDiv(Dbl(TOTAL_QUERIES - succ), qps)

\* line 148
ReportDue(succ, now, last) ==
    succ % ProgressModulus = 0 \/ (now - last) >= ReportIntervalMs

\* successful passed a multiple of ProgressModulus between two values
Crossed(before, after) == before \div ProgressModulus < after \div ProgressModulus

NoProgressLine ==
    [fired |-> FALSE, timerDue |-> FALSE, crossed |-> FALSE, elapsedZero |-> FALSE,
     zeroDivisor |-> FALSE, qps |-> "none", eta |-> "none"]

\* what the evaluation of line 148 at a batch boundary did, and what the
\* progress line (lines 149-154) computed when it was printed
ProgressLine(succ, before, now, last, st) ==
    IF ReportDue(succ, now, last)
    THEN [fired       |-> TRUE,
          timerDue    |-> (now - last) >= ReportIntervalMs,
          crossed     |-> Crossed(before, succ),
          elapsedZero |-> Elapsed(now, st).cls = "zero",
          zeroDivisor |-> Elapsed(now, st).cls = "zero"
                          \/ Qps(succ, Elapsed(now, st)).cls = "zero",
          qps         |-> Qps(succ, Elapsed(now, st)).cls,
          eta         |-> Eta(succ, Qps(succ, Elapsed(now, st))).cls]
    ELSE [NoProgressLine EXCEPT !.timerDue = (now - last) >= ReportIntervalMs,
                                !.crossed = Crossed(before, succ)]

\* a call on the connection; a call repeating the last one is not listed again
LogOp(h, op) ==
    IF h.ops # <<>> /\ h.ops[Len(h.ops)] = op THEN h
    ELSE [h EXCEPT !.ops = Append(@, op)]

HistInit ==
    [sent           |-> 0,      \* requests accepted in the current batch
     sendFailed     |-> FALSE,  \* a send failed in the current batch
     sendLog        |-> <<>>,   \* parameter texts sent in the current batch
     readLog        |-> <<>>,   \* PQgetResult calls of the current batch
     succAtStart    |-> 0,      \* successful when the current batch started
     batchBad       |-> FALSE,  \* a data result of the current batch was not PGRES_TUPLES_OK
     syncs          |-> 0,      \* PQpipelineSync calls
     sendAttempts   |-> 0,      \* PQsendQueryPrepared calls
     batchesStarted |-> 0,      \* iterations of the batch loop entered
     everSendFailed |-> FALSE,
     badResults     |-> 0,      \* data results that were not PGRES_TUPLES_OK
     setupFailed    |-> "none", \* which setup step failed
     finishCount    |-> 0,      \* PQfinish calls
     summaryPrinted |-> FALSE,
     desyncBatch    |-> -1,     \* first batch whose drain came up short
     ops            |-> <<>>,   \* calls made on the connection, repeats merged
     attemptLog     |-> <<>>,   \* PQsendQueryPrepared calls of the current batch
     totalSent      |-> 0,      \* requests accepted in the whole run
     dataStatus     |-> "none", \* status seen by the last read of line 129
     timerStarted   |-> FALSE,  \* the start timestamp has been taken
     report         |-> NoProgressLine, \* the last evaluation of line 148
     reportEvals    |-> 0]      \* evaluations of line 148

\* the state at the start of main(), for any environment and either copy
InitEnv ==
    /\ copy \in {"bench", "example"}
    /\ env \in {f \in [EnvNames -> UNION {EnvValues(n) : n \in EnvNames}] :
                   \A n \in EnvNames : f[n] \in EnvValues(n)}
    /\ conninfo = NoTarget
    /\ pc = "connect"
    /\ batch = 0
    /\ i = 0
    /\ successful = 0
    /\ params = [k \in 1..QUERIES_PER_BATCH |-> <<>>]
    /\ paramPtrs = [k \in 1..QUERIES_PER_BATCH |-> 0]
    /\ start = 0
    /\ last_report = 0
    /\ exitCode = -1
    /\ connStatus = "none"
    /\ prepared = FALSE
    /\ pipelineMode = FALSE
    /\ replies = <<>>
    /\ clock = 0
    /\ hist = HistInit
    /\ heap = <<>>
    /\ phpRet = "none"

\* the benchmark copy started with none of the variables set
Init ==
    /\ InitEnv
    /\ copy = "bench"
    /\ env = [n \in EnvNames |-> Unset]

\* get_time_ms(): the clock has moved on by at most a tick since it was last
\* read; the value returned is in ms
ClockReadings == clock..Min(clock + 1, MaxClock)

\* lines 68-76: PQconnectdb, PQstatus
Connect ==
    /\ pc = "connect"
    /\ UNCHANGED <<phpVars, copy, env>>
    /\ conninfo' = ConnectTarget(IF copy = "bench" THEN BenchConninfo ELSE ExampleConninfo)
    /\ \E ok \in BOOLEAN :
         IF ok
         THEN /\ connStatus' = "ok"
              /\ pc' = "prepare"
              /\ hist' = LogOp(hist, "open")
              /\ UNCHANGED exitCode
         ELSE /\ connStatus' = "finished"
              /\ exitCode' = 1
              /\ pc' = "exited"
              /\ hist' = [LogOp(LogOp(hist, "open"), "close") EXCEPT
                            !.setupFailed = "connect", !.finishCount = @ + 1]
    /\ UNCHANGED <<batch, i, successful, params, paramPtrs, start, last_report,
                   prepared, pipelineMode, replies, clock>>

\* the result of PQprepare not checked
\* a failed prepare leaving without PQfinish
PrepareNoFinish ==
    /\ pc = "prepare"
    /\ UNCHANGED <<phpVars, envVars>>
    /\ \E ok \in BOOLEAN :
         IF ok
         THEN /\ prepared' = TRUE
              /\ pc' = "start_timer"
              /\ hist' = LogOp(hist, "prepare")
              /\ UNCHANGED exitCode
         ELSE /\ exitCode' = 1
              /\ pc' = "exited"
              /\ hist' = [LogOp(hist, "prepare") EXCEPT !.setupFailed = "prepare"]
              /\ UNCHANGED prepared
    /\ UNCHANGED <<batch, i, successful, params, paramPtrs, start, last_report,
                   connStatus, pipelineMode, replies, clock>>

\* the result of PQprepare not looked at
PrepareUnchecked ==
    /\ pc = "prepare"
    /\ UNCHANGED <<phpVars, envVars>>
    /\ \E ok \in BOOLEAN :
         /\ prepared' = ok
         /\ hist' = IF ok THEN LogOp(hist, "prepare")
                    ELSE [LogOp(hist, "prepare") EXCEPT !.setupFailed = "prepare"]
    /\ pc' = "start_timer"
    /\ UNCHANGED <<batch, i, successful, params, paramPtrs, start, last_report,
                   exitCode, connStatus, pipelineMode, replies, clock>>

\* lines 79-89: PQprepare, PQresultStatus, PQclear
Prepare ==
    /\ pc = "prepare"
    /\ UNCHANGED <<phpVars, envVars>>
    /\ \E ok \in BOOLEAN :
         IF ok
         THEN /\ prepared' = TRUE
              /\ pc' = "start_timer"
              /\ hist' = LogOp(hist, "prepare")
              /\ UNCHANGED <<exitCode, connStatus>>
         ELSE /\ connStatus' = "finished"
              /\ exitCode' = 1
              /\ pc' = "exited"
              /\ hist' = [LogOp(LogOp(hist, "prepare"), "close") EXCEPT
                            !.setupFailed = "prepare", !.finishCount = @ + 1]
              /\ UNCHANGED prepared
    /\ UNCHANGED <<batch, i, successful, params, paramPtrs, start, last_report,
                   pipelineMode, replies, clock>>

\* lines 93-95: start = get_time_ms(); successful = 0; last_report = start
\* (the origin of the monotonic clock is arbitrary: it is this first reading)
StartTimer ==
    /\ pc = "start_timer"
    /\ UNCHANGED <<phpVars, envVars>>
    /\ clock' = clock
    /\ start' = clock * TickMs
    /\ last_report' = clock * TickMs
    /\ successful' = 0
    /\ pc' = "enter_pipeline"
    /\ hist' = [hist EXCEPT !.timerStarted = TRUE]
    /\ UNCHANGED <<batch, i, params, paramPtrs, exitCode, connVars>>

\* the return value of PQenterPipelineMode not looked at
EnterPipelineUnchecked ==
    /\ pc = "enter_pipeline"
    /\ UNCHANGED <<phpVars, envVars>>
    /\ \E ok \in BOOLEAN :
         /\ pipelineMode' = ok
         /\ hist' = LogOp(hist, "enter")
    /\ pc' = "build_params"
    /\ i' = 0
    /\ UNCHANGED <<batch, successful, params, paramPtrs, start, last_report,
                   exitCode, connStatus, prepared, replies, clock>>

\* lines 98-102: PQenterPipelineMode
EnterPipeline ==
    /\ pc = "enter_pipeline"
    /\ UNCHANGED <<phpVars, envVars>>
    /\ \E ok \in BOOLEAN :
         IF ok
         THEN /\ pipelineMode' = TRUE
              /\ pc' = "build_params"
              /\ i' = 0
              /\ hist' = LogOp(hist, "enter")
              /\ UNCHANGED <<exitCode, connStatus>>
         ELSE /\ connStatus' = "finished"
              /\ exitCode' = 1
              /\ pc' = "exited"
              /\ hist' = [LogOp(LogOp(hist, "enter"), "close") EXCEPT
                            !.setupFailed = "pipeline", !.finishCount = @ + 1]
              /\ UNCHANGED <<pipelineMode, i>>
    /\ UNCHANGED <<batch, successful, params, paramPtrs, start, last_report,
                   prepared, replies, clock>>

\* the batch loop is entered (line 113) with the send loop at i = 0 (line 115)
EnterBatch(h, succ) ==
    [h EXCEPT !.sent = 0, !.sendFailed = FALSE, !.sendLog = <<>>, !.readLog = <<>>,
              !.attemptLog = <<>>, !.dataStatus = "none",
              !.succAtStart = succ, !.batchBad = FALSE, !.batchesStarted = @ + 1]

\* lines 107-110: one iteration of the pre-build loop; line 113 when it ends
BuildParams ==
    /\ pc = "build_params"
    /\ UNCHANGED <<phpVars, envVars>>
    /\ i < QUERIES_PER_BATCH
    /\ params' = [params EXCEPT ![i + 1] = Snprintf(ParamBufSize, ParamValue(i))]
    /\ paramPtrs' = [paramPtrs EXCEPT ![i + 1] = i + 1]
    /\ IF i + 1 < QUERIES_PER_BATCH
       THEN /\ i' = i + 1
            /\ UNCHANGED <<pc, batch, hist>>
       ELSE /\ batch' = 0
            /\ IF 0 < BATCHES
               THEN /\ pc' = "send"
                    /\ i' = 0
                    /\ hist' = EnterBatch(hist, successful)
               ELSE /\ pc' = "exit_pipeline"
                    /\ i' = i + 1
                    /\ UNCHANGED hist
    /\ UNCHANGED <<successful, start, last_report, exitCode, connVars, clock>>

\* PQsendQueryPrepared can succeed only on a live connection
SendOutcomes == IF connStatus = "ok" THEN BOOLEAN ELSE {FALSE}

\* a failed send tried again at the same index
SendRetry ==
    /\ pc = "send"
    /\ UNCHANGED <<phpVars, envVars>>
    /\ i < SendLoopBound
    /\ \E ok \in SendOutcomes :
         IF ok
         THEN /\ replies' = replies \o <<Reply("RESULT", i), Reply("TERM", i)>>
              /\ hist' = [LogOp(hist, "send") EXCEPT
                                      !.sent = @ + 1,
                                      !.totalSent = @ + 1,
                                      !.sendAttempts = @ + 1,
                                      !.attemptLog = Append(@, [idx |-> i, ok |-> TRUE]),
                                      !.sendLog = Append(@, params[paramPtrs[i + 1]])]
              /\ i' = i + 1
              /\ pc' = IF i + 1 < SendLoopBound THEN "send" ELSE "sync"
         ELSE /\ hist' = [LogOp(hist, "send") EXCEPT
                                      !.sendAttempts = @ + 1,
                                      !.attemptLog = Append(@, [idx |-> i, ok |-> FALSE]),
                                      !.sendFailed = TRUE,
                                      !.everSendFailed = TRUE]
              /\ pc' = "send"
              /\ UNCHANGED <<replies, i>>
    /\ UNCHANGED <<batch, successful, params, paramPtrs, start, last_report, exitCode,
                   connStatus, prepared, pipelineMode, clock>>

\* lines 115-122: one iteration of the send loop
Send ==
    /\ pc = "send"
    /\ UNCHANGED <<phpVars, envVars>>
    /\ i < SendLoopBound
    /\ \E ok \in SendOutcomes :
         IF ok
         THEN /\ replies' = replies \o <<Reply("RESULT", i), Reply("TERM", i)>>
              /\ hist' = [LogOp(hist, "send") EXCEPT
                                      !.sent = @ + 1,
                                      !.totalSent = @ + 1,
                                      !.sendAttempts = @ + 1,
                                      !.attemptLog = Append(@, [idx |-> i, ok |-> TRUE]),
                                      !.sendLog = Append(@, params[paramPtrs[i + 1]])]
              /\ i' = i + 1
              /\ pc' = IF i + 1 < SendLoopBound THEN "send" ELSE "sync"
         ELSE /\ hist' = [LogOp(hist, "send") EXCEPT
                                      !.sendAttempts = @ + 1,
                                      !.attemptLog = Append(@, [idx |-> i, ok |-> FALSE]),
                                      !.sendFailed = TRUE,
                                      !.everSendFailed = TRUE]
              /\ pc' = "sync"
              /\ UNCHANGED <<replies, i>>
    /\ UNCHANGED <<batch, successful, params, paramPtrs, start, last_report, exitCode,
                   connStatus, prepared, pipelineMode, clock>>

\* two sync markers queued for one batch
SyncTwice ==
    /\ pc = "sync"
    /\ UNCHANGED <<phpVars, envVars>>
    /\ replies' = IF connStatus = "ok"
                  THEN replies \o <<Reply("SYNC", -1), Reply("SYNC", -1)>>
                  ELSE replies
    /\ hist' = [LogOp(hist, "sync") EXCEPT !.syncs = @ + 1]
    /\ i' = 0
    /\ pc' = IF 0 < DrainLoopBound THEN "drain_data" ELSE "drain_sync"
    /\ UNCHANGED <<batch, successful, params, paramPtrs, start, last_report, exitCode,
                   connStatus, prepared, pipelineMode, clock>>

\* line 125: PQpipelineSync(conn); its return value is not looked at
Sync ==
    /\ pc = "sync"
    /\ UNCHANGED <<phpVars, envVars>>
    /\ replies' = IF connStatus = "ok" THEN Append(replies, Reply("SYNC", -1))
                  ELSE replies
    /\ hist' = [LogOp(hist, "sync") EXCEPT !.syncs = @ + 1]
    /\ i' = 0
    /\ pc' = IF 0 < DrainLoopBound THEN "drain_data" ELSE "drain_sync"
    /\ UNCHANGED <<batch, successful, params, paramPtrs, start, last_report, exitCode,
                   connStatus, prepared, pipelineMode, clock>>

\* a read that finds nothing while 2*sent + 1 results are still expected
ShortRead(h, got) == got = "NONE" /\ Len(h.readLog) < 2 * h.sent + 1

LogRead(h, site, r, b) ==
    [LogOp(h, "read") EXCEPT
              !.readLog = Append(@, [at |-> site, got |-> r.got, req |-> r.req]),
              !.desyncBatch = IF @ = -1 /\ ShortRead(h, r.got) THEN b ELSE @]

\* lines 129-135: the first read of a drain iteration
DrainData ==
    /\ pc = "drain_data"
    /\ UNCHANGED <<phpVars, envVars>>
    /\ i < DrainLoopBound
    /\ LET r == PQgetResult(replies) IN
         /\ replies' = r.rest
         /\ IF r.res = "NULL"
            THEN /\ pc' = "drain_sync"
                 /\ hist' = [LogRead(hist, "data", r, batch) EXCEPT !.dataStatus = "NULL"]
                 /\ UNCHANGED successful
            ELSE \E st \in ResultStatuses(r.res, hist.badResults) :
                   /\ successful' = IF CountsAsSuccess(st) THEN successful + 1
                                    ELSE successful
                   /\ hist' = [LogRead(hist, "data", r, batch) EXCEPT
                                 !.dataStatus = st,
                                 !.batchBad = @ \/ (r.got = "RESULT" /\ st # "PGRES_TUPLES_OK"),
                                 !.badResults = IF r.got = "RESULT" /\ st # "PGRES_TUPLES_OK"
                                                THEN @ + 1 ELSE @]
                   /\ pc' = "drain_term"
    /\ UNCHANGED <<batch, i, params, paramPtrs, start, last_report, exitCode,
                   connStatus, prepared, pipelineMode, clock>>

\* the terminator after a data result left unread
DrainTermNoRead ==
    /\ pc = "drain_term"
    /\ UNCHANGED <<phpVars, envVars>>
    /\ hist' = [hist EXCEPT !.dataStatus = "none"]
    /\ i' = i + 1
    /\ pc' = IF i + 1 < DrainLoopBound THEN "drain_data" ELSE "drain_sync"
    /\ UNCHANGED <<batch, successful, params, paramPtrs, start, last_report, exitCode,
                   connStatus, prepared, pipelineMode, clock, replies>>

\* lines 138-139 and the loop step of line 128
DrainTerm ==
    /\ pc = "drain_term"
    /\ UNCHANGED <<phpVars, envVars>>
    /\ LET r == PQgetResult(replies) IN
         /\ replies' = r.rest
         /\ hist' = [LogRead(hist, "term", r, batch) EXCEPT !.dataStatus = "none"]
    /\ i' = i + 1
    /\ pc' = IF i + 1 < DrainLoopBound THEN "drain_data" ELSE "drain_sync"
    /\ UNCHANGED <<batch, successful, params, paramPtrs, start, last_report, exitCode,
                   connStatus, prepared, pipelineMode, clock>>

\* the sync marker's result left unread
DrainSyncNoRead ==
    /\ pc = "drain_sync"
    /\ UNCHANGED <<phpVars, envVars>>
    /\ pc' = "report"
    /\ UNCHANGED <<batch, i, successful, params, paramPtrs, start, last_report, exitCode,
                   connVars, clock, hist>>

\* lines 143-144: the read meant for the sync marker's result
DrainSync ==
    /\ pc = "drain_sync"
    /\ UNCHANGED <<phpVars, envVars>>
    /\ LET r == PQgetResult(replies) IN
         /\ replies' = r.rest
         /\ hist' = [LogRead(hist, "sync", r, batch) EXCEPT !.dataStatus = "none"]
    /\ pc' = "report"
    /\ UNCHANGED <<batch, i, successful, params, paramPtrs, start, last_report, exitCode,
                   connStatus, prepared, pipelineMode, clock>>

\* lines 147-157: progress report, then the step of the batch loop (line 113)
Report ==
    /\ pc = "report"
    /\ UNCHANGED <<phpVars, envVars>>
    /\ \E t \in ClockReadings :
         /\ clock' = t
         /\ IF ReportDue(successful, t * TickMs, last_report)
            THEN last_report' = t * TickMs
            ELSE UNCHANGED last_report
         /\ hist' = [(IF batch + 1 < BATCHES THEN EnterBatch(hist, successful) ELSE hist)
                      EXCEPT !.report = ProgressLine(successful, hist.succAtStart,
                                                     t * TickMs, last_report, start),
                             !.reportEvals = @ + 1]
    /\ batch' = batch + 1
    /\ IF batch + 1 < BATCHES
       THEN /\ pc' = "send"
            /\ i' = 0
       ELSE /\ pc' = "exit_pipeline"
            /\ UNCHANGED i
    /\ UNCHANGED <<successful, params, paramPtrs, start, exitCode, connVars>>

\* line 159: PQexitPipelineMode(conn); fails while results are pending
ExitPipeline ==
    /\ pc = "exit_pipeline"
    /\ UNCHANGED <<phpVars, envVars>>
    /\ pipelineMode' = ~(connStatus = "ok" /\ replies = <<>>)
    /\ pc' = "summary"
    /\ hist' = LogOp(hist, "exit")
    /\ UNCHANGED <<progVars, connStatus, prepared, replies, clock>>

\* lines 161-176: final summary, PQfinish, return 0
Summary ==
    /\ pc = "summary"
    /\ UNCHANGED <<phpVars, envVars>>
    /\ \E t \in ClockReadings : clock' = t
    /\ hist' = [LogOp(hist, "close") EXCEPT !.summaryPrinted = TRUE,
                                             !.finishCount = @ + 1]
    /\ connStatus' = "finished"
    /\ exitCode' = 0
    /\ pc' = "exited"
    /\ UNCHANGED <<batch, i, successful, params, paramPtrs, start, last_report,
                   prepared, pipelineMode, replies>>

\* the backend goes away while the pipeline is in use: what was queued is
\* gone, the next read gets the connection's error result, then nothing
ConnectionLost ==
    /\ pc \in {"send", "sync", "drain_data", "drain_term", "drain_sync"}
    /\ UNCHANGED <<phpVars, envVars>>
    /\ connStatus = "ok"
    /\ connStatus' = "bad"
    /\ replies' = <<Reply("ERROR", -1)>>
    /\ UNCHANGED <<pc, progVars, prepared, pipelineMode, clock, hist>>

Run ==
    \/ Connect
    \/ Prepare
    \/ StartTimer
    \/ EnterPipeline
    \/ BuildParams
    \/ Send
    \/ Sync
    \/ DrainData
    \/ DrainTerm
    \/ DrainSync
    \/ Report
    \/ ExitPipeline
    \/ Summary

Next == Run

\* the harness against a backend that answers everything it accepted
Spec == Init /\ [][Next]_vars

NextDesync == Run \/ ConnectionLost

\* the harness against a backend that may go away mid-pipeline
SpecDesync == Init /\ [][NextDesync]_vars

NextEnv == Connect

\* connection setup of either copy, in any environment
SpecEnv == InitEnv /\ [][NextEnv]_vars

(***************************************************************************)
(* Properties                                                              *)
(***************************************************************************)
Drained == pc = "report"

SummaryReached == pc = "summary" \/ hist.summaryPrinted

ErrorFree == ~hist.everSendFailed /\ hist.badResults = 0

\* C1: when the final summary is printed after a run in which every send
\* succeeded and every data result carried rows, successful equals the total
C1_ErrorFreeRunCountsAll ==
    (SummaryReached /\ ErrorFree) => successful = TOTAL_QUERIES

C1_Witness ==
    hist.summaryPrinted /\ ErrorFree /\ successful = TOTAL_QUERIES

\* the reads of a batch whose QUERIES_PER_BATCH requests were all sent
FullBatchReads ==
    [k \in 1..(2 * QUERIES_PER_BATCH + 1) |->
        IF k = 2 * QUERIES_PER_BATCH + 1
        THEN [at |-> "sync", got |-> "SYNC", req |-> -1]
        ELSE IF k % 2 = 1
        THEN [at |-> "data", got |-> "RESULT", req |-> (k - 1) \div 2]
        ELSE [at |-> "term", got |-> "TERM", req |-> (k - 1) \div 2]]

\* C2: once a fully sent batch has been drained, exactly 2*B + 1 reads were
\* made for it: per request the data result then the terminator, and last one
\* read that takes the sync marker's result; none is made while sending
C2_FullBatchReads ==
    /\ (Drained /\ hist.sent = QUERIES_PER_BATCH) =>
          /\ Len(hist.readLog) = 2 * QUERIES_PER_BATCH + 1
          /\ hist.readLog = FullBatchReads
    /\ pc \in {"send", "sync"} => hist.readLog = <<>>

C2_Witness ==
    Drained /\ batch = 1 /\ hist.sent = QUERIES_PER_BATCH
            /\ Len(hist.readLog) = 2 * QUERIES_PER_BATCH + 1

LoopReads == {k \in DOMAIN hist.readLog : hist.readLog[k].at \in {"data", "term"}}

\* C3: once a batch cut short by a failed send has been drained, exactly
\* 2*sent + 1 reads were made for it: 2*sent by the per-request loop, and the
\* final one, which takes the sync marker's result
C3_ShortBatchReads ==
    (Drained /\ hist.sendFailed) =>
        /\ Len(hist.readLog) = 2 * hist.sent + 1
        /\ Cardinality(LoopReads) = 2 * hist.sent
        /\ hist.readLog[Len(hist.readLog)] = [at |-> "sync", got |-> "SYNC", req |-> -1]

\* C4: after a drain in which a read found nothing while 2*sent + 1 results
\* were still expected, the run goes no further than that batch's drain
C4_ShortfallIsFatal ==
    hist.desyncBatch # -1 =>
        /\ batch = hist.desyncBatch
        /\ pc \in {"drain_data", "drain_term", "drain_sync", "report"}

\* C5: a failed send is not fatal: the batch is still synced and drained, a
\* batch whose data results all carried rows adds exactly sent to successful,
\* the run never exits with 1 and never stops before its end, and at exit all
\* BATCHES batches were run
C5_SendFailureNotFatal ==
    /\ (hist.sendFailed /\ batch < BATCHES) =>
          /\ pc \in {"sync", "drain_data", "drain_term", "drain_sync", "report"}
          /\ hist.sent < QUERIES_PER_BATCH
          /\ Len(hist.sendLog) = hist.sent
    /\ (Drained /\ hist.sendFailed) =>
          /\ hist.syncs = batch + 1
          /\ replies = <<>>
          /\ ~hist.batchBad => successful = hist.succAtStart + hist.sent
    /\ hist.everSendFailed =>
          /\ exitCode # 1
          /\ pc # "exited" => ENABLED Next
          /\ pc = "exited" => /\ exitCode = 0
                              /\ hist.batchesStarted = BATCHES
                              /\ batch = BATCHES

C5_Witness ==
    /\ pc = "exited"
    /\ exitCode = 0
    /\ hist.everSendFailed
    /\ ~hist.sendFailed
    /\ hist.badResults = 0
    /\ QUERIES_PER_BATCH < successful
    /\ successful < TOTAL_QUERIES

AfterSync == pc \in {"drain_data", "drain_term", "drain_sync", "report"}

\* C6: BATCHES = TOTAL_QUERIES / QUERIES_PER_BATCH divides exactly (5000 for
\* 50000000 and 10000), a run past setup makes exactly BATCHES iterations of
\* the batch loop, and one sync marker is issued in each
C6_BatchAndSyncCount ==
    /\ BATCHES * QUERIES_PER_BATCH = TOTAL_QUERIES
    /\ Batches(50000000, 10000) = 5000
    /\ Batches(50000000, 10000) * 10000 = 50000000
    /\ hist.batchesStarted <= BATCHES
    /\ pc \in {"send", "sync"} => hist.syncs = hist.batchesStarted - 1
    /\ AfterSync => hist.syncs = hist.batchesStarted
    /\ (pc = "exit_pipeline" \/ SummaryReached) =>
          /\ hist.batchesStarted = BATCHES
          /\ hist.syncs = BATCHES
          /\ batch = BATCHES

C6_Witness ==
    /\ hist.summaryPrinted
    /\ hist.everSendFailed
    /\ hist.syncs = BATCHES
    /\ hist.batchesStarted = BATCHES

\* requests accepted by the connection whose terminator has not been read
Outstanding == Cardinality({k \in DOMAIN replies : replies[k].kind = "TERM"})

\* C7: never more than QUERIES_PER_BATCH requests are outstanding, and none
\* is when a batch starts sending
C7_OutstandingBounded ==
    /\ Outstanding <= QUERIES_PER_BATCH
    /\ (pc = "send" /\ i = 0) => (Outstanding = 0 /\ replies = <<>>)

C7_Witness ==
    pc = "send" /\ i = 0 /\ batch = 1 /\ replies = <<>> /\ hist.everSendFailed

\* the texts the buffer is to hold: request index k-1 carries (k-1 mod 10) + 1
ExpectedParams ==
    [k \in 1..QUERIES_PER_BATCH |-> Snprintf(ParamBufSize, ((k - 1) % 10) + 1)]

\* read back as integers, these texts are the values, all in 1..10
ExpectedParamsParse ==
    \A k \in 1..QUERIES_PER_BATCH :
        /\ ParseInt(ExpectedParams[k]) = ((k - 1) % 10) + 1
        /\ ParseInt(ExpectedParams[k]) \in 1..10

\* C8: the k-th request of any batch carries (k-1 mod 10) + 1, a value in
\* 1..10, and from the end of its construction on the parameter buffer holds
\* these values at every step
C8_ParamValues ==
    /\ ExpectedParamsParse
    /\ hist.sendLog = SubSeq(ExpectedParams, 1, Len(hist.sendLog))
    /\ hist.batchesStarted > 0 =>
          /\ params = ExpectedParams
          /\ paramPtrs = [k \in 1..QUERIES_PER_BATCH |-> k]

C8_Witness ==
    /\ batch = 1
    /\ Len(hist.sendLog) = QUERIES_PER_BATCH
    /\ ParseInt(hist.sendLog[QUERIES_PER_BATCH]) = ((QUERIES_PER_BATCH - 1) % 10) + 1
    /\ QUERIES_PER_BATCH > 10

\* C9: the process exits with 1 exactly when connect, prepare or pipeline
\* entry failed, having sent nothing and started no batch; otherwise it
\* exits with 0 after the summary
C9_ExitCodes ==
    /\ pc # "exited" => exitCode = -1
    /\ hist.setupFailed # "none" => (pc = "exited" /\ exitCode = 1)
    /\ pc = "exited" =>
          /\ exitCode \in {0, 1}
          /\ exitCode = 1 <=> hist.setupFailed # "none"
          /\ exitCode = 1 => (hist.sendAttempts = 0 /\ hist.batchesStarted = 0
                              /\ ~hist.summaryPrinted)
          /\ exitCode = 0 => hist.summaryPrinted

C9_Witness ==
    pc = "exited" /\ exitCode = 1 /\ hist.setupFailed = "prepare"

OpRank(op) ==
    CASE op = "open" -> 1
      [] op = "prepare" -> 2
      [] op = "enter" -> 3
      [] op \in {"send", "sync", "read"} -> 4
      [] op = "exit" -> 5
      [] op = "close" -> 6

LastOp == IF hist.ops = <<>> THEN "none" ELSE hist.ops[Len(hist.ops)]

InBatch == pc \in {"send", "sync", "drain_data", "drain_term", "drain_sync", "report"}

\* C11: the connection goes through open, prepare, enter-pipeline, the
\* batch loop, exit-pipeline and close in that order, each of the five
\* lifecycle steps at most once; requests are sent only on a prepared
\* connection in pipeline mode; the pipeline is left only after the last
\* batch was drained; nothing happens on a closed connection
C11_LifecycleOrder ==
    /\ \A k \in 1..(Len(hist.ops) - 1) :
          /\ OpRank(hist.ops[k]) <= OpRank(hist.ops[k + 1])
          /\ OpRank(hist.ops[k]) = OpRank(hist.ops[k + 1]) => OpRank(hist.ops[k]) = 4
    /\ hist.ops # <<>> => hist.ops[1] = "open"
    /\ InBatch => (connStatus = "ok" /\ prepared /\ pipelineMode
                   /\ SubSeq(hist.ops, 1, 3) = <<"open", "prepare", "enter">>)
    /\ hist.sendAttempts > 0 => (prepared /\ Len(hist.ops) > 3 /\ hist.ops[3] = "enter")
    /\ LastOp = "exit" => (batch = BATCHES /\ replies = <<>>
                           /\ hist.syncs = BATCHES /\ ~pipelineMode)
    /\ connStatus = "finished" => (pc = "exited" /\ LastOp = "close")

C11_Witness ==
    /\ pc = "exited"
    /\ hist.ops = <<"open", "prepare", "enter", "send", "sync", "read", "send", "sync",
                    "read", "exit", "close">>

\* C12: when the start timestamp is taken, the parameter strings of the
\* batch have already been built
C12_ParamsBuiltBeforeTimer ==
    hist.timerStarted => params = ExpectedParams

\* C13: a progress line is computed without dividing by zero, and when the
\* elapsed time is positive its rate and its remaining time are finite and
\* not negative
C13_ProgressLineFinite ==
    hist.report.fired =>
       /\ ~hist.report.zeroDivisor
       /\ ~hist.report.elapsedZero =>
             (hist.report.qps \in {"zero", "finite"} /\ hist.report.eta \in {"zero", "finite"})

\* the value a parameter must have by the defaults of lines 55-58
EnvOrDefault(name, default_val) == IF env[name] = Unset THEN default_val ELSE env[name]

\* C14: the connection is made to host 127.0.0.1, port 5432, user postgres,
\* database postgres, each replaced by the value of PG_HOST, PG_PORT,
\* PG_USER, PG_DATABASE when that variable is set, and by nothing else
C14_ConnectionDefaults ==
    conninfo # NoTarget =>
       conninfo = [host   |-> EnvOrDefault("PG_HOST", Str(<<"127.0.0.1">>, 9)),
                   port   |-> EnvOrDefault("PG_PORT", Str(<<"5432">>, 4)),
                   user   |-> EnvOrDefault("PG_USER", Str(<<"postgres">>, 8)),
                   dbname |-> EnvOrDefault("PG_DATABASE", Str(<<"postgres">>, 8))]

\* C15: the report condition is evaluated once per batch, after its drain;
\* a line is printed at every batch end at which the counter has passed a
\* multiple of the progress modulus during the batch or the interval has
\* gone by since the last line; last_report changes only when a line is
\* printed
C15_ReportAtEveryBoundary ==
    /\ [](hist.reportEvals = batch)
    /\ [](hist.reportEvals > 0 =>
            ((hist.report.crossed \/ hist.report.timerDue) => hist.report.fired))
    /\ [][last_report' # last_report => (pc = "report" /\ hist'.report.fired)]_vars

\* the reads of the first m replies of a batch, in send order
RequestReads(m) == SubSeq(FullBatchReads, 1, m)

\* C16: in a batch all sends come first, then the one sync, then the
\* reads; the replies of the requests sent are read in send order, for each
\* request its data result and then its terminator
C16_PhaseOrder ==
    /\ pc \in {"send", "sync"} => hist.readLog = <<>>
    /\ hist.readLog # <<>> => hist.syncs = hist.batchesStarted
    /\ \A k \in 1..(Len(hist.ops) - 1) :
          /\ hist.ops[k] = "send" => hist.ops[k + 1] = "sync"
          /\ hist.ops[k] = "sync" => hist.ops[k + 1] = "read"
          /\ hist.ops[k] = "read" => hist.ops[k + 1] \in {"send", "exit"}
    /\ LET m == Min(Len(hist.readLog), 2 * hist.sent) IN
          SubSeq(hist.readLog, 1, m) = RequestReads(m)
    /\ Drained => Len(hist.readLog) > 2 * hist.sent

C16_Witness ==
    /\ Drained
    /\ hist.sendFailed
    /\ hist.sent = 2
    /\ SubSeq(hist.readLog, 1, 4) =
          <<[at |-> "data", got |-> "RESULT", req |-> 0],
            [at |-> "term", got |-> "TERM", req |-> 0],
            [at |-> "data", got |-> "RESULT", req |-> 1],
            [at |-> "term", got |-> "TERM", req |-> 1]>>

\* C17: a batch attempts the indices 0, 1, 2, ... each at most once and
\* stops at the first failed send; over a run at most TOTAL_QUERIES sends
\* are attempted
C17_NoRetry ==
    /\ hist.sendAttempts <= TOTAL_QUERIES
    /\ Len(hist.attemptLog) <= QUERIES_PER_BATCH
    /\ \A k \in DOMAIN hist.attemptLog :
          /\ hist.attemptLog[k].idx = k - 1
          /\ k < Len(hist.attemptLog) => hist.attemptLog[k].ok
    /\ hist.sendFailed =>
          (pc # "send" /\ hist.attemptLog # <<>>
           /\ ~hist.attemptLog[Len(hist.attemptLog)].ok)

C17_Witness ==
    /\ pc = "summary"
    /\ hist.everSendFailed
    /\ hist.sendFailed
    /\ hist.sendAttempts < TOTAL_QUERIES
    /\ Len(hist.attemptLog) > 1

\* the step read a request's data result with row-data status
TupleDataRead ==
    /\ pc = "drain_data"
    /\ pc' = "drain_term"
    /\ hist'.readLog[Len(hist'.readLog)].got = "RESULT"
    /\ hist'.dataStatus = "PGRES_TUPLES_OK"

\* C18: successful grows by exactly one in a step that reads a request's
\* data result with row-data status and is left alone by every other step,
\* so it never decreases; it never exceeds the number of requests sent
C18_SuccessCounter ==
    /\ [][successful' = successful + (IF TupleDataRead THEN 1 ELSE 0)]_vars
    /\ [](successful <= hist.totalSent)

C18_Witness ==
    /\ pc = "summary"
    /\ hist.badResults > 0
    /\ hist.everSendFailed
    /\ successful > 0
    /\ successful < hist.totalSent

\* C19: PQfinish is called exactly once on every path to an exit, the
\* failures of connect, prepare and pipeline entry included, it is the last
\* thing done, and never before the exit
C19_ClosedOnce ==
    /\ pc = "exited" => (hist.finishCount = 1 /\ connStatus = "finished"
                         /\ LastOp = "close")
    /\ pc # "exited" => (hist.finishCount = 0 /\ connStatus # "finished"
                         /\ LastOp # "close")

C19_Witness ==
    pc = "exited" /\ hist.finishCount = 1 /\ hist.setupFailed = "pipeline"

\* C20: when the pipeline is left no reply is outstanding, also after
\* batches cut short by a failed send, and the connection is then out of
\* pipeline mode
C20_NothingOutstandingAtExit ==
    /\ pc = "exit_pipeline" => (replies = <<>> /\ Outstanding = 0)
    /\ pc = "summary" => (replies = <<>> /\ ~pipelineMode)

C20_Witness ==
    /\ pc = "exit_pipeline"
    /\ hist.sendFailed
    /\ hist.sent > 0
    /\ hist.totalSent > QUERIES_PER_BATCH

(***************************************************************************)
(* The PHP binding (php/ext/qail/qail.c).  Each PHP function is one        *)
(* action.  The library call's outcome is an input: the pointer it returns *)
(* (NULL or a buffer) and the length it stores in out_len.  heap records   *)
(* every buffer handed out and the free calls made on it.                  *)
(***************************************************************************)
MaxCalls == 3

MaxOutLen == 1

\* a buffer the callee handed out: who made it, and how it was released
Alloc(fn, kind, len, frees, with) ==
    [fn |-> fn, kind |-> kind, len |-> len, frees |-> frees, with |-> with]

\* outcomes of a library call that returns a buffer and stores out_len
LibOutcomes == {[ptr |-> "NULL", len |-> 0]}
               \cup {[ptr |-> "PTR", len |-> n] : n \in 0..MaxOutLen}

\* lines 36-42: qail_version(); RETURN_STRING copies the string and nothing is
\* freed.  qail.h (lines 69-74) makes the string the caller's to free with
\* qail_free; the declaration at line 17 (const char*) allows a static one.
PhpVersion ==
    /\ Len(heap) < MaxCalls
    /\ \E owned \in BOOLEAN :
         heap' = IF owned
                 THEN Append(heap, Alloc("qail_version", "string", 1, 0, "none"))
                 ELSE heap
    /\ phpRet' = "string"
    /\ UNCHANGED mainVars

\* lines 61-68 and 127-134: what is done with the bytes the encoder returned
ReturnBytes(fn, r, base) ==
    IF r.ptr = "NULL"
    THEN /\ heap' = base
         /\ phpRet' = "empty"
    ELSE IF r.len = 0
    THEN /\ heap' = Append(base, Alloc(fn, "bytes", r.len, 0, "none"))
         /\ phpRet' = "empty"
    ELSE /\ heap' = Append(base, Alloc(fn, "bytes", r.len, 1, "qail_bytes_free"))
         /\ phpRet' = "string"

\* lines 45-69: qail_encode_select
PhpEncodeSelect ==
    /\ Len(heap) < MaxCalls
    /\ \E r \in LibOutcomes : ReturnBytes("qail_encode_select", r, heap)
    /\ UNCHANGED mainVars

\* lines 72-92: qail_transpile
PhpTranspile ==
    /\ Len(heap) < MaxCalls
    /\ \E r \in LibOutcomes :
         IF r.ptr = "NULL"
         THEN /\ phpRet' = "null"
              /\ UNCHANGED heap
         ELSE /\ heap' = Append(heap, Alloc("qail_transpile", "string", r.len, 1,
                                            "qail_string_free"))
              /\ phpRet' = "string"
    /\ UNCHANGED mainVars

\* lines 95-135: qail_encode_batch; count is the size of the limits array
PhpEncodeBatch ==
    /\ Len(heap) < MaxCalls
    /\ \E count \in 0..1 :
         IF count = 0
         THEN /\ phpRet' = "empty"
              /\ UNCHANGED heap
         ELSE \E r \in LibOutcomes :
                ReturnBytes("qail_encode_batch", r,
                            Append(heap, Alloc("emalloc", "limits", count, 1, "efree")))
    /\ UNCHANGED mainVars

NextPhp ==
    \/ PhpVersion
    \/ PhpEncodeSelect
    \/ PhpTranspile
    \/ PhpEncodeBatch

\* calls into the PHP binding, in any order
SpecPhp == Init /\ [][NextPhp]_vars

LibraryBuffers == {k \in DOMAIN heap : heap[k].fn # "emalloc"}

MatchingFree(kind) == IF kind = "bytes" THEN "qail_bytes_free" ELSE "qail_string_free"

\* C10: after every call of a PHP binding function, each buffer the library
\* returned to it has been released exactly once, by its matching free call
C10_OwnedBuffersFreedOnce ==
    \A k \in LibraryBuffers :
        /\ heap[k].frees = 1
        /\ heap[k].with = MatchingFree(heap[k].kind)

====
